---- MODULE Spec2Model ----
(***************************************************************************)
(* Model of beetsplug/albumflags.py: the Flag classes (remove / generate), *)
(* the AlbumFlags plugin (flag list construction, _remove_flag_string,     *)
(* _generate_flag_string, _update_flags, _remove_flags) and the batch      *)
(* commands that drive them over a library of items and albums.            *)
(*                                                                         *)
(* Strings are sequences of one-character strings, so that regular         *)
(* expression matching, splitting and formatting are computed character by *)
(* character as Python computes them.                                      *)
(***************************************************************************)
EXTENDS Integers, Sequences, FiniteSets, TLC

(***************************************************************************)
(* Python's re module, for the syntax the plugin's patterns use:           *)
(* literals, backslash escapes, \d, '.', '^', '$', groups, '|', and the    *)
(* greedy quantifiers '+', '?', '*'.                                       *)
(***************************************************************************)
Digits == {"0", "1", "2", "3", "4", "5", "6", "7", "8", "9"}

Quantifiers == {"+", "?", "*"}

ReError == [ok |-> FALSE, re |-> <<>>, pos |-> 0]

QuantOf(c) == IF c = "+" THEN "plus" ELSE IF c = "?" THEN "opt" ELSE "star"

\* One atom of a pattern: k is its kind, c its literal character, sub the
\* alternation inside a group, q its quantifier.
Atom(k, c, sub, q) == [k |-> k, c |-> c, sub |-> sub, q |-> q]

RECURSIVE ParseAlt(_, _, _, _)
\* sre_parse: parses p from position i up to the end of p or to an unmatched
\* ')'. branches are the finished alternatives, cur the pieces of the current
\* one. A quantifier with nothing before it, or right after another
\* quantifier, is an error, as is a group that is never closed.
ParseAlt(p, i, branches, cur) ==
    IF i > Len(p) THEN [ok |-> TRUE, re |-> Append(branches, cur), pos |-> i]
    ELSE
      LET c == p[i]
          Piece(a, j) ==
              \* a is the atom that ends before position j: attach the
              \* quantifier at j, if any, and go on.
              IF j <= Len(p) /\ p[j] \in Quantifiers
              THEN IF a.k \in {"bol", "eol"} THEN ReError
                   ELSE IF j + 1 <= Len(p) /\ p[j + 1] \in Quantifiers THEN ReError
                   ELSE ParseAlt(p, j + 1, branches,
                                 Append(cur, Atom(a.k, a.c, a.sub, QuantOf(p[j]))))
              ELSE ParseAlt(p, j, branches, Append(cur, a))
      IN  IF c = "|" THEN ParseAlt(p, i + 1, Append(branches, cur), <<>>)
          ELSE IF c = ")" THEN [ok |-> TRUE, re |-> Append(branches, cur), pos |-> i]
          ELSE IF c = "(" THEN
              LET g == ParseAlt(p, i + 1, <<>>, <<>>)
              IN  IF ~g.ok \/ g.pos > Len(p) THEN ReError
                  ELSE Piece(Atom("group", "", g.re, "one"), g.pos + 1)
          ELSE IF c = "\\" THEN
              IF i = Len(p) THEN ReError
              ELSE IF p[i + 1] = "d" THEN Piece(Atom("digit", "", <<>>, "one"), i + 2)
              ELSE Piece(Atom("lit", p[i + 1], <<>>, "one"), i + 2)
          ELSE IF c = "." THEN Piece(Atom("any", "", <<>>, "one"), i + 1)
          ELSE IF c = "^" THEN Piece(Atom("bol", "", <<>>, "one"), i + 1)
          ELSE IF c = "$" THEN Piece(Atom("eol", "", <<>>, "one"), i + 1)
          ELSE IF c \in Quantifiers THEN ReError
          ELSE Piece(Atom("lit", c, <<>>, "one"), i + 1)

\* re.compile: a ')' left over at the top level is "unbalanced parenthesis".
re_compile(p) ==
    LET r == ParseAlt(p, 1, <<>>, <<>>)
    IN  IF r.ok /\ r.pos > Len(p) THEN r ELSE ReError

RECURSIVE EndsAlt(_, _, _), EndsSeq(_, _, _), EndsEach(_, _, _), EndsBranches(_, _, _, _)
\* The positions at which a match of the alternation re that starts at
\* position i of s can end, in the order the backtracking matcher tries them
\* (earlier alternative first, greedy quantifiers longest first).
EndsAlt(re, s, i) == EndsBranches(re, s, i, 1)

EndsBranches(re, s, i, b) ==
    IF b > Len(re) THEN <<>>
    ELSE EndsSeq(re[b], s, i) \o EndsBranches(re, s, i, b + 1)

\* The ends of one atom taken once ('.' matches every character but a
\* newline, and no string here has one).
EndsAtom(a, s, i) ==
    IF a.k = "group" THEN EndsAlt(a.sub, s, i)
    ELSE IF a.k = "bol" THEN (IF i = 1 THEN <<i>> ELSE <<>>)
    ELSE IF a.k = "eol" THEN (IF i = Len(s) + 1 THEN <<i>> ELSE <<>>)
    ELSE IF i > Len(s) THEN <<>>
    ELSE IF a.k = "any" THEN <<i + 1>>
    ELSE IF a.k = "digit" THEN (IF s[i] \in Digits THEN <<i + 1>> ELSE <<>>)
    ELSE IF s[i] = a.c THEN <<i + 1>> ELSE <<>>

\* seq continued from each of the positions js, in order.
EndsEach(seq, s, js) ==
    IF js = <<>> THEN <<>>
    ELSE EndsSeq(seq, s, Head(js)) \o EndsEach(seq, s, Tail(js))

EndsSeq(seq, s, i) ==
    IF seq = <<>> THEN <<i>>
    ELSE
      LET a == Head(seq)
          rest == Tail(seq)
          once == EndsAtom(a, s, i)
          \* a repetition that consumed nothing is not repeated again
          more == SelectSeq(once, LAMBDA j : j > i)
          star == <<Atom(a.k, a.c, a.sub, "star")>> \o rest
      IN  IF a.q = "one" THEN EndsEach(rest, s, once)
          ELSE IF a.q = "opt" THEN EndsEach(rest, s, once) \o EndsSeq(rest, s, i)
          ELSE IF a.q = "plus" THEN
              EndsEach(star, s, once)
          ELSE EndsEach(star, s, more) \o EndsSeq(rest, s, i)

\* re.match(pattern, s) is not None, for a pattern that compiles.
re_match(re, s) == EndsAlt(re, s, 1) # <<>>

RECURSIVE SubFrom(_, _, _)
\* re.sub(pattern, "", s) from position i on: the leftmost match is deleted
\* and the scan goes on behind it; a match of no characters deletes nothing,
\* and the matcher then looks for a longer one at the same position.
SubFrom(re, s, i) ==
    IF i > Len(s) THEN <<>>
    ELSE LET ends == SelectSeq(EndsAlt(re, s, i), LAMBDA e : e > i)
         IN  IF ends = <<>> THEN <<s[i]>> \o SubFrom(re, s, i + 1)
             ELSE SubFrom(re, s, Head(ends))

\* The result of a call that can raise: ok is FALSE when it raised.
Ok(v) == [ok |-> TRUE, val |-> v]

Raised == [ok |-> FALSE, val |-> <<>>]

\* re.sub(pattern, "", s): raises re.error when the pattern does not compile.
re_sub(pattern, s) ==
    LET r == re_compile(pattern)
    IN  IF r.ok THEN Ok(SubFrom(r.re, s, 1)) ELSE Raised

(***************************************************************************)
(* Python string operations the plugin uses.                               *)
(***************************************************************************)
RECURSIVE Join(_, _)
\* sep.join(parts)
Join(parts, sep) ==
    IF parts = <<>> THEN <<>>
    ELSE IF Len(parts) = 1 THEN parts[1]
    ELSE parts[1] \o sep \o Join(Tail(parts), sep)

\* s[i:] starts with sep
StartsAt(s, i, sep) ==
    /\ i + Len(sep) - 1 <= Len(s)
    /\ \A k \in 1..Len(sep) : s[i + k - 1] = sep[k]

RECURSIVE SplitFrom(_, _, _, _)
SplitFrom(s, sep, i, cur) ==
    IF i > Len(s) THEN <<cur>>
    ELSE IF StartsAt(s, i, sep) THEN <<cur>> \o SplitFrom(s, sep, i + Len(sep), <<>>)
    ELSE SplitFrom(s, sep, i + 1, Append(cur, s[i]))

\* s.split(sep)
Split(s, sep) == SplitFrom(s, sep, 1, <<>>)

DigitChar(d) ==
    CASE d = 0 -> "0" [] d = 1 -> "1" [] d = 2 -> "2" [] d = 3 -> "3" [] d = 4 -> "4"
      [] d = 5 -> "5" [] d = 6 -> "6" [] d = 7 -> "7" [] d = 8 -> "8" [] d = 9 -> "9"

RECURSIVE FormatInt(_)
\* "%i" % n for n >= 0
FormatInt(n) ==
    IF n < 10 THEN <<DigitChar(n)>>
    ELSE FormatInt(n \div 10) \o <<DigitChar(n % 10)>>

\* "%g" % (n / 1000) for 0 <= n < 1000000, where the quotient has at most six
\* significant digits and %g prints it exactly: the integer part, then the
\* thousandths without their trailing zeros.
FormatG(n) ==
    LET q == n \div 1000
        r == n % 1000
        frac == IF r % 100 = 0 THEN <<DigitChar(r \div 100)>>
                ELSE IF r % 10 = 0 THEN <<DigitChar(r \div 100), DigitChar((r \div 10) % 10)>>
                ELSE <<DigitChar(r \div 100), DigitChar((r \div 10) % 10), DigitChar(r % 10)>>
    IN  IF r = 0 THEN FormatInt(q) ELSE FormatInt(q) \o <<".">> \o frac

(***************************************************************************)
(* The Flag classes.  A flag object is a record: cls is its class, and the *)
(* other fields are the attributes its constructor sets (those a class     *)
(* does not have are empty).                                               *)
(***************************************************************************)
Flag_patterns == <<>>

BitdepthFlag_patterns ==
    << <<" ", "\\", "(", "\\", "d", "+", "b", "i", "t", "\\", ")">> >>

SamplerateFlag_patterns ==
    << <<" ", "\\", "(", "\\", "d", "+", "\\", "(", "\\", ".", "\\", "d", "+", ")", "?",
         "k", "H", "z", "\\", ")">> >>

ChannelsFlag_patterns ==
    << <<" ", "\\", "(", "5", ".", "1", "\\", ")">> >>

\* Flag.remove, with self._patterns the class attribute of the flag's class
Flag_remove(patterns, album) == re_sub(Join(patterns, <<"|">>), album)

\* FieldMappingFlag._is_regex
is_regex(string) == re_match(re_compile(<<"^", "/", ".", "*", "/", "$">>).re, string)

\* A mapping is a dict in insertion order: a sequence of <<key, value>> pairs
\* with distinct keys.
Values(mapping) == [n \in 1..Len(mapping) |-> mapping[n][2]]

HasKey(mapping, key) == \E n \in 1..Len(mapping) : mapping[n][1] = key

Lookup(mapping, key) == mapping[CHOOSE n \in 1..Len(mapping) : mapping[n][1] = key][2]

\* FieldMappingFlag.__init__
FieldMappingFlag(field, mapping) ==
    [cls |-> "FieldMappingFlag", field |-> field, mapping |-> mapping,
     string_mapping |-> SelectSeq(mapping, LAMBDA it : ~is_regex(it[1])),
     regex_mapping |->
        LET rx == SelectSeq(mapping, LAMBDA it : is_regex(it[1]))
        IN  [n \in 1..Len(rx) |-> <<SubSeq(rx[n][1], 2, Len(rx[n][1]) - 1), rx[n][2]>>],
     min |-> 0]

\* BitdepthFlag.__init__
BitdepthFlag(min_bitdepth) ==
    [cls |-> "BitdepthFlag", field |-> <<>>, mapping |-> <<>>,
     string_mapping |-> <<>>, regex_mapping |-> <<>>, min |-> min_bitdepth]

\* SamplerateFlag.__init__
SamplerateFlag(min_samplerate) ==
    [cls |-> "SamplerateFlag", field |-> <<>>, mapping |-> <<>>,
     string_mapping |-> <<>>, regex_mapping |-> <<>>, min |-> min_samplerate]

ChannelsFlag ==
    [cls |-> "ChannelsFlag", field |-> <<>>, mapping |-> <<>>,
     string_mapping |-> <<>>, regex_mapping |-> <<>>, min |-> 0]

\* FieldMappingFlag.remove: one pattern per value of the mapping, the value
\* put between the escaped brackets as it is.
FieldMappingFlag_remove(self, album) ==
    LET vals == Values(self.mapping)
        patterns == [n \in 1..Len(vals) |->
                        <<" ", "\\", "(">> \o vals[n] \o <<"\\", ")">>]
    IN  re_sub(Join(patterns, <<"|">>), album)

\* The result of _match: found is FALSE for None.
Found(v) == [ok |-> TRUE, found |-> TRUE, val |-> v]

NoneFound == [ok |-> TRUE, found |-> FALSE, val |-> <<>>]

MatchRaised == [ok |-> FALSE, found |-> FALSE, val |-> <<>>]

RECURSIVE FirstRegex(_, _, _)
\* next((v for k, v in regex_mapping.items() if re.match(k, value)), None);
\* a key that does not compile raises when the scan reaches it.
FirstRegex(regex_mapping, value, n) ==
    IF n > Len(regex_mapping) THEN NoneFound
    ELSE LET r == re_compile(regex_mapping[n][1])
         IN  IF ~r.ok THEN MatchRaised
             ELSE IF re_match(r.re, value) THEN Found(regex_mapping[n][2])
             ELSE FirstRegex(regex_mapping, value, n + 1)

\* _match with the /regex/ keys tried before the literal ones
FieldMappingFlag_match_regex_first(self, value) ==
    LET r == FirstRegex(self.regex_mapping, value, 1)
    IN  IF ~r.ok \/ r.found THEN r
        ELSE IF HasKey(self.string_mapping, value)
             THEN Found(Lookup(self.string_mapping, value))
        ELSE NoneFound

\* FieldMappingFlag._match
FieldMappingFlag_match(self, value) ==
    IF HasKey(self.string_mapping, value) THEN Found(Lookup(self.string_mapping, value))
    ELSE FirstRegex(self.regex_mapping, value, 1)

\* FieldMappingFlag._format_flag: None and the empty label are both falsy.
FieldMappingFlag_format_flag(self, value) ==
    LET flag == FieldMappingFlag_match(self, value)
    IN  IF ~flag.ok THEN Raised
        ELSE IF flag.found /\ flag.val # <<>> THEN Ok(<<" ", "(">> \o flag.val \o <<")">>)
        ELSE Ok(<<>>)

RECURSIVE JoinResults(_)
\* "".join(...) over results that can raise
JoinResults(rs) ==
    IF rs = <<>> THEN Ok(<<>>)
    ELSE LET t == JoinResults(Tail(rs))
         IN  IF ~rs[1].ok \/ ~t.ok THEN Raised ELSE Ok(rs[1].val \o t.val)

\* An item's metadata field is a str or a list of str:
\* [str |-> TRUE, v |-> the string] or [str |-> FALSE, v |-> the list].
\* FieldMappingFlag.generate
FieldMappingFlag_generate(self, item) ==
    IF self.field \in DOMAIN item.fields
    THEN LET field_value == item.fields[self.field]
             values == IF field_value.str THEN Split(field_value.v, <<";", " ">>)
                       ELSE field_value.v
         IN  JoinResults([n \in 1..Len(values) |->
                             FieldMappingFlag_format_flag(self, values[n])])
    ELSE Ok(<<>>)

\* BitdepthFlag.generate
BitdepthFlag_generate(self, item) ==
    IF item.bitdepth >= self.min
    THEN Ok(<<" ", "(">> \o FormatInt(item.bitdepth) \o <<"b", "i", "t", ")">>)
    ELSE Ok(<<>>)

\* SamplerateFlag.generate
SamplerateFlag_generate(self, item) ==
    IF item.samplerate >= self.min
    THEN Ok(<<" ", "(">> \o FormatG(item.samplerate) \o <<"k", "H", "z", ")">>)
    ELSE Ok(<<>>)

\* ChannelsFlag.generate
ChannelsFlag_generate(self, item) ==
    IF item.channels = 6 THEN Ok(<<" ", "(", "5", ".", "1", ")">>) ELSE Ok(<<>>)

\* flag.remove(album), dispatched on the flag's class
remove(flag, album) ==
    CASE flag.cls = "FieldMappingFlag" -> FieldMappingFlag_remove(flag, album)
      [] flag.cls = "BitdepthFlag" -> Flag_remove(BitdepthFlag_patterns, album)
      [] flag.cls = "SamplerateFlag" -> Flag_remove(SamplerateFlag_patterns, album)
      [] flag.cls = "ChannelsFlag" -> Flag_remove(ChannelsFlag_patterns, album)

\* flag.generate(item), dispatched on the flag's class
generate(flag, item) ==
    CASE flag.cls = "FieldMappingFlag" -> FieldMappingFlag_generate(flag, item)
      [] flag.cls = "BitdepthFlag" -> BitdepthFlag_generate(flag, item)
      [] flag.cls = "SamplerateFlag" -> SamplerateFlag_generate(flag, item)
      [] flag.cls = "ChannelsFlag" -> ChannelsFlag_generate(flag, item)

RECURSIVE remove_flag_string(_, _)
\* AlbumFlags._remove_flag_string: reduce over self._flags, left to right; an
\* exception of one flag's remove ends the reduce.
remove_flag_string(flags, album) ==
    IF flags = <<>> THEN Ok(album)
    ELSE LET r == remove(Head(flags), album)
         IN  IF ~r.ok THEN Raised ELSE remove_flag_string(Tail(flags), r.val)

\* AlbumFlags._generate_flag_string
generate_flag_string(flags, item) ==
    JoinResults([n \in 1..Len(flags) |-> generate(flags[n], item)])

(***************************************************************************)
(* The AlbumFlags plugin.                                                  *)
(***************************************************************************)
\* The names the flag list of the configuration can use.
s_field == <<"f", "i", "e", "l", "d">>

s_bitdepth == <<"b", "i", "t", "d", "e", "p", "t", "h">>

s_samplerate == <<"s", "a", "m", "p", "l", "e", "r", "a", "t", "e">>

s_channels == <<"c", "h", "a", "n", "n", "e", "l", "s">>

\* The flag, if any, that one entry f of config["flags"] appends to
\* self._flags; the entry has the form "category" or "category:field".
\* Unpacking f.split(":") into two names raises when f has two colons or more.
FlagsOfEntry(config, f) ==
    LET parts == Split(f, <<":">>)
        category == parts[1]
        field == parts[2]
    IN  IF Len(parts) > 2 THEN Raised
        ELSE IF Len(parts) = 2 /\ category = s_field /\ HasKey(config.field_flags, field)
             THEN Ok(<<FieldMappingFlag(field, Lookup(config.field_flags, field))>>)
        ELSE IF category = s_bitdepth THEN Ok(<<BitdepthFlag(config.min_bitdepth)>>)
        ELSE IF category = s_samplerate THEN Ok(<<SamplerateFlag(config.min_samplerate)>>)
        ELSE IF category = s_channels THEN Ok(<<ChannelsFlag>>)
        ELSE Ok(<<>>)

\* AlbumFlags.__init__: self._flags, or the exception
AlbumFlags_init(config) ==
    JoinResults([n \in 1..Len(config.flags) |-> FlagsOfEntry(config, config.flags[n])])

\* The record of one call of _update_flags or _remove_flags: the item, the
\* titles item.load() and item.get_album() found, the title the call
\* computed, and which of the two try_sync calls it made.
CallRec(op, id, item, parent, result, item_sync, album_sync) ==
    [op |-> op, item |-> id, loaded |-> item.album, has_album |-> item.album_id # 0,
     parent |-> parent, result |-> result,
     item_sync |-> item_sync, album_sync |-> album_sync]

\* The write-back with the parent album written inside the branch that
\* writes the item.
WriteBack_nested(op, its, albs, id, title) ==
    LET item == its[id]
        a == item.album_id
        item_sync == item.album # title
        its1 == IF item_sync THEN [its EXCEPT ![id].album = title] ELSE its
        parent == IF a # 0 THEN albs[a].album ELSE <<>>
        album_sync == item_sync /\ a # 0 /\ albs[a].album # title
        albs1 == IF album_sync THEN [albs EXCEPT ![a].album = title] ELSE albs
        its2 == IF album_sync
                THEN [j \in DOMAIN its1 |->
                        IF its1[j].album_id = a THEN [its1[j] EXCEPT !.album = title]
                        ELSE its1[j]]
                ELSE its1
    IN  [raised |-> FALSE, items |-> its2, albums |-> albs1,
         call |-> CallRec(op, id, item, parent, title, item_sync, album_sync)]

\* The write-back of the item alone.
WriteBack_item_only(op, its, albs, id, title) ==
    LET item == its[id]
        item_sync == item.album # title
        parent == IF item.album_id # 0 THEN albs[item.album_id].album ELSE <<>>
    IN  [raised |-> FALSE,
         items |-> IF item_sync THEN [its EXCEPT ![id].album = title] ELSE its,
         albums |-> albs,
         call |-> CallRec(op, id, item, parent, title, item_sync, FALSE)]

\* item.album = title; item.try_sync(...) and then, for the parent album,
\* current_album.album = title; current_album.try_sync(...): storing an
\* album also stores its title on every item of the album, which is why the
\* next call starts with item.load().
WriteBack(op, its, albs, id, title) ==
    LET item == its[id]
        a == item.album_id
        item_sync == item.album # title
        its1 == IF item_sync THEN [its EXCEPT ![id].album = title] ELSE its
        parent == IF a # 0 THEN albs[a].album ELSE <<>>
        album_sync == a # 0 /\ albs[a].album # title
        albs1 == IF album_sync THEN [albs EXCEPT ![a].album = title] ELSE albs
        its2 == IF album_sync
                THEN [j \in DOMAIN its1 |->
                        IF its1[j].album_id = a THEN [its1[j] EXCEPT !.album = title]
                        ELSE its1[j]]
                ELSE its1
    IN  [raised |-> FALSE, items |-> its2, albums |-> albs1,
         call |-> CallRec(op, id, item, parent, title, item_sync, album_sync)]

\* A call that raised before it changed anything.
CallRaised(its, albs) == [raised |-> TRUE, items |-> its, albums |-> albs, call |-> <<>>]

\* _update_flags that writes the title without the generated flags
update_flags_base_only(self_flags, its, albs, id) ==
    LET item == its[id]
        album == remove_flag_string(self_flags, item.album)
        flgs == generate_flag_string(self_flags, item)
    IN  IF ~album.ok \/ ~flgs.ok THEN CallRaised(its, albs)
        ELSE WriteBack("update", its, albs, id, album.val)

\* AlbumFlags._update_flags(item) on the library (its, albs)
update_flags(self_flags, its, albs, id) ==
    LET item == its[id]
        album == remove_flag_string(self_flags, item.album)
        flgs == generate_flag_string(self_flags, item)
    IN  IF ~album.ok \/ ~flgs.ok THEN CallRaised(its, albs)
        ELSE WriteBack("update", its, albs, id, album.val \o flgs.val)

\* AlbumFlags._remove_flags(item) on the library (its, albs)
remove_flags(self_flags, its, albs, id) ==
    LET item == its[id]
        album_without_flags == remove_flag_string(self_flags, item.album)
    IN  IF ~album_without_flags.ok THEN CallRaised(its, albs)
        ELSE WriteBack("remove", its, albs, id, album_without_flags.val)

(***************************************************************************)
(* The state: the plugin object, the host's library, and the position of   *)
(* the command or import stage that is running.                            *)
(***************************************************************************)
VARIABLES
    pc,         \* "new" before AlbumFlags.__init__, "idle" between commands,
                \* "update" / "remove" inside a loop over items, "raised"
                \* after an exception has left the plugin
    config,     \* the plugin's configuration
    flags,      \* self._flags
    import_stages, \* whether _import_stage is registered
    items,      \* the library's items: id -> [album, album_id, bitdepth, ...]
    albums,     \* the library's albums: id -> [album]
    cmd,        \* the running or last command
    batch,      \* the items the command loops over, in order
    idx,        \* the position of the loop in batch
    runs,       \* the number of commands started
    trace,      \* the calls the running or last command has made
    written,    \* item id -> the title the last successful _update_flags
                \* call computed for it, <<"?">> before the first
    unit        \* the call of a single function and its result

vars == <<pc, config, flags, import_stages, items, albums, cmd, batch, idx, runs,
          trace, written, unit>>

MaxRuns == 2

MaxItems == 2

NoUnit == [fn |-> "none"]

RECURSIVE Sorted(_)
\* the items of a query result, in the order of their ids
Sorted(S) ==
    IF S = {} THEN <<>>
    ELSE LET m == CHOOSE x \in S : \A y \in S : x <= y
         IN  <<m>> \o Sorted(S \ {m})

\* AlbumFlags.__init__
Construct ==
    /\ pc = "new"
    /\ LET r == AlbumFlags_init(config)
       IN  IF r.ok
           THEN /\ pc' = "idle"
                /\ flags' = r.val
                /\ import_stages' = config.auto
           ELSE /\ pc' = "raised"
                /\ UNCHANGED <<flags, import_stages>>
    /\ UNCHANGED <<config, items, albums, cmd, batch, idx, runs, trace, written, unit>>

\* A loop over the items S starts; a loop over no items is over at once.
StartLoop(name, loop, S) ==
    /\ pc = "idle"
    /\ runs < MaxRuns
    /\ pc' = IF S = {} THEN "idle" ELSE loop
    /\ cmd' = name
    /\ batch' = Sorted(S)
    /\ idx' = 1
    /\ runs' = runs + 1
    /\ trace' = <<>>
    /\ UNCHANGED <<config, flags, import_stages, items, albums, written, unit>>

\* AlbumFlags._update_flags_command: the query's items
update_flags_command == \E S \in SUBSET DOMAIN items : StartLoop("updateflags", "update", S)

\* AlbumFlags._remove_flags_command
remove_flags_command == \E S \in SUBSET DOMAIN items : StartLoop("removeflags", "remove", S)

\* AlbumFlags._import_stage: the task's imported items
import_stage ==
    /\ import_stages
    /\ \E S \in SUBSET DOMAIN items : StartLoop("import", "update", S)

\* One iteration of a loop: the call r for the item batch[idx].
LoopStep(r) ==
    /\ IF r.raised
       THEN /\ pc' = "raised"
            /\ UNCHANGED <<items, albums, idx, trace>>
       ELSE /\ items' = r.items
            /\ albums' = r.albums
            /\ trace' = Append(trace, r.call)
            /\ idx' = idx + 1
            /\ pc' = IF idx = Len(batch) THEN "idle" ELSE pc
    /\ UNCHANGED <<config, flags, import_stages, cmd, batch, runs, unit>>

\* for item in items: self._update_flags(item, ...)
update_flags_step ==
    /\ pc = "update"
    /\ LET r == update_flags(flags, items, albums, batch[idx])
       IN  /\ LoopStep(r)
           /\ written' = IF r.raised THEN written
                         ELSE [written EXCEPT ![batch[idx]] = r.call.result]

\* for item in items: self._remove_flags(item, ...)
remove_flags_step ==
    /\ pc = "remove"
    /\ LoopStep(remove_flags(flags, items, albums, batch[idx]))
    /\ UNCHANGED written

Next ==
    \/ Construct
    \/ update_flags_command
    \/ remove_flags_command
    \/ import_stage
    \/ update_flags_step
    \/ remove_flags_step

(***************************************************************************)
(* Inputs: configurations, titles and item metadata.                       *)
(***************************************************************************)
DefaultMinBitdepth == 24

DefaultMinSamplerate == 96000

s_media == <<"m", "e", "d", "i", "a">>

\* flag list entries: a field with a mapping table, a field without one, an
\* unknown category, and an entry with two colons
s_field_media == <<"f", "i", "e", "l", "d", ":", "m", "e", "d", "i", "a">>

s_field_albumtype ==
    <<"f", "i", "e", "l", "d", ":", "a", "l", "b", "u", "m", "t", "y", "p", "e">>

s_lossless == <<"l", "o", "s", "s", "l", "e", "s", "s">>

s_two_colons == <<"a", ":", "b", ":", "c">>

s_CD == <<"C", "D">>

s_LP == <<"L", "P">>

s_LP7 == <<"L", "P", " ", "7">>

s_L == <<"L">>

s_MC == <<"M", "C">>

s_Vinyl == <<"V", "i", "n", "y", "l">>

\* mapping tables for the field "media"
MapPlain == << <<s_CD, s_CD>> >>

MapPlus == << <<s_CD, <<"C", "D", "+">> >> >>

MapRegex ==
    << <<s_CD, s_CD>>,
       << <<"/", "^", "L", "P", ".", "*", "$", "/">>, s_Vinyl>>,
       << <<"/", "L", "/">>, s_L>>,
       <<s_LP, s_LP>>,
       <<s_MC, <<>> >> >>

MapRegexSwapped ==
    << << <<"/", "L", "/">>, s_L>>,
       << <<"/", "^", "L", "P", ".", "*", "$", "/">>, s_Vinyl>> >>

MapBadKey == << << <<"/", "(", "/">>, s_L>>, <<s_CD, s_CD>> >>

Config(auto, flgs, mapping, min_bitdepth, min_samplerate) ==
    [auto |-> auto, flags |-> flgs, field_flags |-> << <<s_media, mapping>> >>,
     min_bitdepth |-> min_bitdepth, min_samplerate |-> min_samplerate]

DefaultConfig(auto, flgs, mapping) ==
    Config(auto, flgs, mapping, DefaultMinBitdepth, DefaultMinSamplerate)

\* The entries of a flag list that name no flag class, or a field without a
\* mapping table.
Malformed(cfg, f) ==
    LET parts == Split(f, <<":">>)
    IN  \/ parts[1] \notin {s_field, s_bitdepth, s_samplerate, s_channels}
        \/ parts[1] = s_field /\ (Len(parts) < 2 \/ ~HasKey(cfg.field_flags, parts[2]))

Str(v) == [str |-> TRUE, v |-> v]

List(v) == [str |-> FALSE, v |-> v]

Meta(bitdepth, samplerate, channels, fields) ==
    [bitdepth |-> bitdepth, samplerate |-> samplerate, channels |-> channels,
     fields |-> fields]

NoFields == [f \in {} |-> Str(<<>>)]

Media(v) == [f \in {s_media} |-> v]

\* An item of the library: its title, its album (0 for an item without one)
\* and its metadata.
Item(title, album_id, meta) ==
    [album |-> title, album_id |-> album_id, bitdepth |-> meta.bitdepth,
     samplerate |-> meta.samplerate, channels |-> meta.channels, fields |-> meta.fields]

t_A == <<"A">>

f_16bit == <<" ", "(", "1", "6", "b", "i", "t", ")">>

f_24bit == <<" ", "(", "2", "4", "b", "i", "t", ")">>

f_44kHz == <<" ", "(", "4", "4", ".", "1", "k", "H", "z", ")">>

f_96kHz == <<" ", "(", "9", "6", "k", "H", "z", ")">>

f_51 == <<" ", "(", "5", ".", "1", ")">>

f_5x1 == <<" ", "(", "5", "x", "1", ")">>

f_CDplus == <<" ", "(", "C", "D", "+", ")">>

RECURSIVE Flatten(_)
Flatten(ss) == IF ss = <<>> THEN <<>> ELSE Head(ss) \o Flatten(Tail(ss))

\* The titles made of the base title and up to n of the fragments frags.
Titles(frags, n) ==
    {t_A \o Flatten(fs) : fs \in UNION {[1..k -> frags] : k \in 0..n}}

(***************************************************************************)
(* Spec: a library of several items, one album, and the commands.          *)
(***************************************************************************)
MainConfigs ==
    { DefaultConfig(TRUE, <<s_bitdepth>>, MapPlain),
      DefaultConfig(TRUE, <<s_bitdepth, s_channels>>, MapPlain),
      DefaultConfig(FALSE, <<s_field_media, s_bitdepth>>, MapPlain),
      DefaultConfig(TRUE, <<s_bitdepth, s_samplerate>>, MapPlain),
      DefaultConfig(TRUE, <<s_lossless, s_field_albumtype, s_bitdepth>>, MapPlain),
      DefaultConfig(TRUE, <<s_bitdepth, s_two_colons>>, MapPlain) }

MainTitles == {t_A, t_A \o f_24bit}

MainMeta ==
    { Meta(16, 44100, 2, NoFields),
      Meta(24, 96000, 6, Media(Str(s_CD))) }

ItemIds == 1..MaxItems

\* Every item belongs to album 1, or all but the last one do.
AlbumIdMaps == {[i \in ItemIds |-> 1], [i \in ItemIds |-> IF i = MaxItems THEN 0 ELSE 1]}

NotWritten == <<"?">>

InitPlugin ==
    /\ pc = "new"
    /\ flags = <<>>
    /\ import_stages = FALSE
    /\ cmd = "none"
    /\ batch = <<>>
    /\ idx = 1
    /\ runs = 0
    /\ trace = <<>>
    /\ written = [i \in DOMAIN items |-> NotWritten]

Init ==
    /\ config \in MainConfigs
    /\ \E aid \in AlbumIdMaps :
         items \in {[i \in ItemIds |-> Item(ts[i], aid[i], ms[i])] :
                       ts \in [ItemIds -> MainTitles], ms \in [ItemIds -> MainMeta]}
    /\ albums \in [{1} -> [album : MainTitles]]
    /\ unit = NoUnit
    /\ InitPlugin

Spec == Init /\ [][Next]_vars

(***************************************************************************)
(* SpecOne: a library of one item, with titles that carry annotations of   *)
(* earlier runs and configurations with other thresholds and labels.       *)
(***************************************************************************)
MaxFrags == 3

OneConfigs ==
    { Config(TRUE, <<s_bitdepth, s_samplerate>>, MapPlain, mb, ms) :
          mb \in {16, DefaultMinBitdepth}, ms \in {44100, DefaultMinSamplerate} }
    \cup
    { DefaultConfig(TRUE, <<s_bitdepth>>, MapPlain),
      DefaultConfig(FALSE, <<s_bitdepth, s_channels>>, MapPlain),
      DefaultConfig(TRUE, <<s_field_media>>, MapPlain),
      DefaultConfig(TRUE, <<s_field_media, s_bitdepth>>, MapPlus) }

OneTitles == Titles({f_16bit, f_44kHz, f_CDplus}, MaxFrags)

OneMeta ==
    { Meta(24, 96000, 6, Media(Str(s_CD))),
      Meta(16, 44100, 2, NoFields) }

InitOne ==
    /\ config \in OneConfigs
    /\ items \in {[i \in {1} |-> Item(t, aid, m)] :
                     t \in OneTitles, aid \in {0, 1}, m \in OneMeta}
    /\ albums \in [{1} -> [album : MainTitles]]
    /\ unit = NoUnit
    /\ InitPlugin

SpecOne == InitOne /\ [][Next]_vars

(***************************************************************************)
(* SpecFn: single calls of the plugin's functions on a constructed plugin. *)
(***************************************************************************)
f_open2 == <<" ", "(", "2">>

f_4bit == <<"4", "b", "i", "t", ")">>

FnConfigs ==
    { DefaultConfig(TRUE, <<s_bitdepth>>, MapPlain),
      DefaultConfig(TRUE, <<s_channels>>, MapPlain),
      DefaultConfig(TRUE, <<s_bitdepth, s_channels>>, MapPlain),
      DefaultConfig(TRUE, <<s_channels, s_bitdepth>>, MapPlain),
      DefaultConfig(TRUE, <<s_samplerate>>, MapPlain),
      DefaultConfig(TRUE, <<s_bitdepth, s_samplerate, s_channels>>, MapPlain),
      DefaultConfig(TRUE, <<s_field_media>>, MapRegex),
      DefaultConfig(TRUE, <<s_field_media>>, MapRegexSwapped),
      DefaultConfig(TRUE, <<s_field_media, s_bitdepth>>, MapPlus),
      DefaultConfig(TRUE, <<s_field_media>>, MapBadKey) }

FnTitles == Titles({f_24bit, f_51, f_5x1, f_open2, f_4bit}, MaxFrags)

FnMeta ==
    { Meta(24, 96000, 6, Media(Str(<<"L", "P", ";", " ", "C", "D">>))),
      Meta(16, 44100, 2, NoFields),
      Meta(32, 95999, 6, Media(List(<<s_LP7, s_MC>>))) }

FnValues == {s_CD, s_LP, s_LP7, s_L, s_MC, <<"T">>}

\* The call of one function: fn its name, n the position in self._flags of
\* the flag it is called on, title / item / value its argument, res its
\* result (match, for _match).
Unit(fn, n, title, item, value, res, match) ==
    [fn |-> fn, n |-> n, title |-> title, item |-> item, value |-> value,
     res |-> res, match |-> match]

InitFn ==
    /\ config \in FnConfigs
    /\ pc = "idle"
    /\ flags = AlbumFlags_init(config).val
    /\ import_stages = config.auto
    /\ items = <<>>
    /\ albums = <<>>
    /\ cmd = "none"
    /\ batch = <<>>
    /\ idx = 1
    /\ runs = 0
    /\ trace = <<>>
    /\ written = <<>>
    /\ unit \in {Unit("none", 0, t, m, <<>>, Ok(<<>>), NoneFound) :
                    t \in FnTitles, m \in FnMeta}

Called(fn, n, value, res, match) ==
    /\ unit' = Unit(fn, n, unit.title, unit.item, value, res, match)
    /\ UNCHANGED <<pc, config, flags, import_stages, items, albums, cmd, batch, idx,
                   runs, trace, written>>

\* self._remove_flag_string(title)
call_remove_flag_string ==
    /\ pc = "idle"
    /\ Called("_remove_flag_string", 0, <<>>, remove_flag_string(flags, unit.title), NoneFound)

\* self._generate_flag_string(item)
call_generate_flag_string ==
    /\ pc = "idle"
    /\ Called("_generate_flag_string", 0, <<>>, generate_flag_string(flags, unit.item),
              NoneFound)

\* self._flags[n].remove(title)
call_remove ==
    /\ pc = "idle"
    /\ \E n \in 1..Len(flags) :
          Called("remove", n, <<>>, remove(flags[n], unit.title), NoneFound)

\* self._flags[n].generate(item)
call_generate ==
    /\ pc = "idle"
    /\ \E n \in 1..Len(flags) :
          Called("generate", n, <<>>, generate(flags[n], unit.item), NoneFound)

\* self._flags[n]._match(value), for a FieldMappingFlag
call_match ==
    \E n \in 1..Len(flags), value \in FnValues :
        /\ pc = "idle"
        /\ flags[n].cls = "FieldMappingFlag"
        /\ Called("_match", n, value, Ok(<<>>), FieldMappingFlag_match(flags[n], value))

NextFn ==
    \/ call_remove_flag_string
    \/ call_generate_flag_string
    \/ call_remove
    \/ call_generate
    \/ call_match

SpecFn == InitFn /\ [][NextFn]_vars

(***************************************************************************)
(* Properties.                                                             *)
(***************************************************************************)
\* The item the running loop is about to process.
Current == items[batch[idx]]

\* The last call the running or last command has made.
LastCall == trace[Len(trace)]

\* C1 (idempotence of reconcile): when _update_flags runs on an item whose
\* stored title is the title an earlier _update_flags call computed for this
\* item, the call changes nothing: it raises nothing and writes neither the
\* item nor an album.
C1_SecondRunNoChange ==
    [][(pc = "update" /\ Current.album = written[batch[idx]])
          => (pc' # "raised" /\ items' = items /\ albums' = albums)]_vars

\* No flag's removal pattern matches anywhere in title (a pattern that does
\* not compile matches nothing).
BaseClean(fl, title) ==
    \A n \in 1..Len(fl) : LET r == remove(fl[n], title) IN r.ok => r.val = title

\* C2 (round trip): for a base title that no removal pattern matches,
\* removing the flags from base + generated flags gives the base again, and
\* each single flag's remove strips what that flag generates.
C2_RoundTrip ==
    /\ (unit.fn = "_generate_flag_string" /\ unit.res.ok /\ BaseClean(flags, unit.title))
          => remove_flag_string(flags, unit.title \o unit.res.val) = Ok(unit.title)
    /\ (unit.fn = "generate" /\ unit.res.ok /\ BaseClean(flags, unit.title))
          => remove(flags[unit.n], unit.title \o unit.res.val) = Ok(unit.title)

\* C3 (stale threshold flags): with the flags bitdepth and samplerate
\* configured, whatever their minimums up to the item's values, updating an
\* item titled "A (16bit) (44.1kHz)" with bitdepth 24 and samplerate 96000
\* leaves it titled "A (24bit) (96kHz)".
C3_StaleFlagsReplaced ==
    [][(/\ pc = "update"
        /\ config.flags = <<s_bitdepth, s_samplerate>>
        /\ Current.album = t_A \o f_16bit \o f_44kHz
        /\ Current.bitdepth = 24 /\ Current.samplerate = 96000)
          => items'[batch[idx]].album = t_A \o f_24bit \o f_96kHz]_vars

\* A mapping key of the form /regex/
IsRegexKey(k) == Len(k) >= 2 /\ k[1] = "/" /\ k[Len(k)] = "/"

\* The positions in mapping m of the /regex/ keys whose pattern matches v.
RegexHits(m, v) ==
    {n \in 1..Len(m) :
        /\ IsRegexKey(m[n][1])
        /\ LET r == re_compile(SubSeq(m[n][1], 2, Len(m[n][1]) - 1))
           IN  r.ok /\ re_match(r.re, v)}

\* C4 (mapping-key precedence): when _match returns, the label is that of
\* the literal key equal to the value if there is one, whatever /regex/ keys
\* match too; otherwise that of the first /regex/ key in the order of the
\* configured mapping whose pattern matches; otherwise there is none, and
\* the value contributes no annotation.
C4_MatchPrecedence ==
    (unit.fn = "_match" /\ unit.match.ok) =>
        LET self == flags[unit.n]
            m == Lookup(config.field_flags, self.field)
            v == unit.value
            lit == {n \in 1..Len(m) : ~IsRegexKey(m[n][1]) /\ m[n][1] = v}
            hits == RegexHits(m, v)
        IN  IF lit # {} THEN unit.match = Found(m[CHOOSE n \in lit : TRUE][2])
            ELSE IF hits # {}
                 THEN unit.match = Found(m[CHOOSE n \in hits : \A k \in hits : n <= k][2])
            ELSE /\ unit.match = NoneFound
                 /\ FieldMappingFlag_format_flag(self, v) = Ok(<<>>)

\* A literal key equals the value while two /regex/ keys match it too.
C4_Witness ==
    /\ unit.fn = "_match"
    /\ unit.value = s_LP
    /\ Cardinality(RegexHits(flags[unit.n].mapping, unit.value)) = 2
    /\ unit.match = Found(s_LP)

\* C5 (malformed configuration fails fast): once the plugin is constructed
\* from a flag list with an unknown category or a field without a mapping
\* table, construction has raised.
C5_MalformedConfigRaises ==
    (pc # "new" /\ \E n \in 1..Len(config.flags) : Malformed(config, config.flags[n]))
        => pc = "raised"

\* C6 (write-back only on change), as claimed: an _update_flags call whose
\* reconciled title equals the item's stored title syncs neither the item
\* nor the parent album and leaves both unchanged.
C6_NoWriteWhenItemUnchanged ==
    [][(pc = "update" /\ pc' # "raised" /\ LastCall'.result = Current.album)
          => (/\ ~LastCall'.item_sync /\ ~LastCall'.album_sync
              /\ items' = items /\ albums' = albums)]_vars

\* C6, amended: the item is assigned and synced exactly when the reconciled
\* title differs from the item's stored title, and the parent album exactly
\* when it differs from the album's stored title; what is not synced is not
\* changed.
C6_WriteBackPerObject ==
    [][(pc = "update" /\ pc' # "raised") =>
          LET c == LastCall'
              a == Current.album_id
          IN  /\ c.item_sync = (c.result # Current.album)
              /\ c.album_sync = (a # 0 /\ albums[a].album # c.result)
              /\ items'[batch[idx]].album = c.result
              /\ ~c.item_sync => items'[batch[idx]] = items[batch[idx]]
              /\ ~c.album_sync => (albums' = albums /\ (~c.item_sync => items' = items))
              /\ c.album_sync => albums'[a].album = c.result]_vars

\* An _update_flags call left the item alone and wrote the parent album.
C6_Witness ==
    /\ trace # <<>>
    /\ LastCall.op = "update"
    /\ LastCall.result = LastCall.loaded
    /\ ~LastCall.item_sync
    /\ LastCall.album_sync

\* C7 (item / album consistency): after _update_flags or _remove_flags has
\* returned for an item with a parent album, the album's title and the
\* item's title both are the title the call computed.
C7_AlbumTitleIsItemTitle ==
    (trace # <<>> /\ items[LastCall.item].album_id # 0) =>
        /\ albums[items[LastCall.item].album_id].album = items[LastCall.item].album
        /\ items[LastCall.item].album = LastCall.result

\* A call returned for an item whose title and whose album's title differed
\* from each other and from the computed title before the call.
C7_Witness ==
    /\ trace # <<>>
    /\ LastCall.has_album
    /\ LastCall.parent # LastCall.loaded
    /\ LastCall.result # LastCall.loaded
    /\ LastCall.result # LastCall.parent
    /\ albums[items[LastCall.item].album_id].album = LastCall.result

\* The calls of the finished update batch for items of album a.
AlbumCalls(a) == SelectSeq(trace, LAMBDA c : items[c.item].album_id = a)

\* An updateflags command or import stage has finished, and it processed
\* two or more items of album a.
BatchDone(a) ==
    /\ pc = "idle"
    /\ cmd \in {"updateflags", "import"}
    /\ Len(trace) = Len(batch)
    /\ Len(AlbumCalls(a)) >= 2

\* The title _update_flags computes in call c: the title the item had,
\* without flags, plus the flags of the item's metadata.
Reconciled(c) ==
    remove_flag_string(flags, c.loaded).val \o generate_flag_string(flags, items[c.item]).val

\* C8 (representative item), as claimed: after the batch the album's title
\* is the one reconciled for the first item of the album in the batch.
C8_FirstItemWins ==
    \A a \in DOMAIN albums :
        BatchDone(a) => albums[a].album = Reconciled(AlbumCalls(a)[1])

\* C8, amended: after the batch the album's title is the one reconciled for
\* the last item of the album in the batch.
C8_LastItemWins ==
    \A a \in DOMAIN albums :
        BatchDone(a) => albums[a].album = Reconciled(AlbumCalls(a)[Len(AlbumCalls(a))])

\* A finished batch whose first and last item of the album have different
\* flags.
C8_Witness ==
    \E a \in DOMAIN albums :
        /\ BatchDone(a)
        /\ generate_flag_string(flags, items[AlbumCalls(a)[1].item])
             # generate_flag_string(flags, items[AlbumCalls(a)[Len(AlbumCalls(a))].item])
        /\ albums[a].album # AlbumCalls(a)[1].result

Orders(n) == {p \in [1..n -> 1..n] : \A i, j \in 1..n : p[i] = p[j] => i = j}

\* C9 (removal is idempotent and order-independent): removing the flags from
\* the result of _remove_flag_string changes nothing, and the flags' remove
\* operations applied in any other order give the same result.
C9_RemoveIdempotentAnyOrder ==
    (unit.fn = "_remove_flag_string" /\ unit.res.ok) =>
        /\ remove_flag_string(flags, unit.res.val) = unit.res
        /\ \A p \in Orders(Len(flags)) :
              remove_flag_string([n \in 1..Len(flags) |-> flags[p[n]]], unit.title) = unit.res

RECURSIVE DeleteAll(_, _, _)
\* s from position i on, without the occurrences of the literal text lit
DeleteAll(s, lit, i) ==
    IF i > Len(s) THEN <<>>
    ELSE IF StartsAt(s, i, lit) THEN DeleteAll(s, lit, i + Len(lit))
    ELSE <<s[i]>> \o DeleteAll(s, lit, i + 1)

\* C10 (ChannelsFlag removes the fixed text only): ChannelsFlag.remove
\* returns the title without its occurrences of " (5.1)", every other
\* character kept.
C10_ChannelsRemovesLiteralOnly ==
    (unit.fn = "remove" /\ flags[unit.n].cls = "ChannelsFlag")
        => unit.res = Ok(DeleteAll(unit.title, f_51, 1))

====
